---- MODULE Spec2Model ----
(***************************************************************************)
(* A model of xpoll(3) (src/xpoll.c, src/xpoll.h): one handle, built for   *)
(* one of the three backends the preprocessor selects (poll, epoll,        *)
(* kqueue), driven by a caller that issues xpoll_create, xpoll_ctl,        *)
(* xpoll_wait, xpoll_revents and xpoll_destroy.  The kernel side of        *)
(* poll(2), epoll(7) and kevent(2) is modelled by what the manual pages    *)
(* say the calls do at the places the code makes them.                     *)
(***************************************************************************)
EXTENDS Integers, Sequences, FiniteSets, TLC

VARIABLES
    backend,    \* "poll" | "epoll" | "kqueue": fixed by the build
    phase,      \* "none" | "live" | "failed" | "destroyed" | "aborted"
    xpoll,      \* struct xpoll
    kern,       \* the kernel's interest list behind xpoll.fd (epoll, kqueue)
    heap,       \* live allocations
    openfds,    \* open descriptors of the process
    closed,     \* descriptor numbers handed to close(2), in order
    errno,
    ret,        \* return value of the last call (xpoll_create: 1 a handle, 0 NULL)
    hist,       \* what the caller has done and seen
    mon,        \* the caller's place in the call sequences the properties follow
    ring        \* main() of src/main.c: its place, its locals and its pipes

vars == <<backend, phase, xpoll, kern, heap, openfds, closed, errno, ret, hist, mon, ring>>

----------------------------------------------------------------------------
(* Bounds of the model *)

MaxCap == 2        \* capacities passed to xpoll_create: -1 .. MaxCap
MaxFd == 3         \* the caller's descriptors are 0 .. MaxFd
MaxCtl == 2        \* xpoll_ctl calls per run
MaxWait == 1       \* xpoll_wait calls per run
MaxCalls == 4      \* xpoll_revents calls per wait cycle
SeqFd == 1         \* the descriptors of the followed call sequences: 0 .. SeqFd
SeqCtl == 4        \* xpoll_ctl calls of a followed call sequence
SeqPending == 3    \* a followed call sequence goes on while fewer entries are pending
TwoWait == 2       \* xpoll_wait calls of a run with more than one wait cycle
BatchCtl == 5      \* xpoll_ctl calls of a run that fills the change list
RingWait == 6      \* xpoll_wait calls of a run of main()

(* Program constants *)

Slack == 128       \* xpoll->fdmax = fdmax + 128
EventBuf == 128    \* xpoll->nfds = 128 (epoll, kqueue): size of eventv
NChange == 8       \* struct xpollev changev[8]
DTableSize == 1024 \* getdtablesize(): one past the largest descriptor

Backends == {"poll", "epoll", "kqueue"}

NULL == "NULL"

\* <poll.h> event bits, as a set of names
POLLIN == "IN"
POLLOUT == "OUT"
POLLERR == "ERR"
POLLHUP == "HUP"
POLLNVAL == "NVAL"
Flags == {POLLIN, POLLOUT, POLLERR, POLLHUP}

\* the operations of xpoll.h
XPOLL_ADD == "ADD"
XPOLL_DELETE == "DELETE"
XPOLL_ENABLE == "ENABLE"
XPOLL_DISABLE == "DISABLE"
Ops == {XPOLL_ADD, XPOLL_DELETE, XPOLL_ENABLE, XPOLL_DISABLE}

UserFds == 0 .. MaxFd
NativeFd == MaxFd + 1   \* the lowest free descriptor: what epoll_create1/kqueue return

----------------------------------------------------------------------------
(* struct xpoll (xpoll.h).  fds and datav are empty until allocated (the    *)
(* heap says which blocks exist); eventv names the block it points to:      *)
(* NULL, its own "eventv" (epoll, kqueue, contents in ev) or "fds" (poll).  *)
(* changev holds the changec entries that are pending.                      *)

\* calloc(1, sizeof(*xpoll)): every field zero
ZeroXpoll ==
    [fds |-> <<>>, datav |-> <<>>, eventv |-> NULL, ev |-> <<>>,
     changev |-> <<>>, changec |-> 0,
     fdmax |-> 0, nfds |-> 0, nrdy |-> 0, n |-> 0, fd |-> 0]

\* Of a table of fdmax entries the model keeps the entries 0 .. MaxFd: xpoll_ctl
\* is the only writer, at the index of a descriptor it accepts, and poll(2) and
\* xpoll_revents stay below nfds; the entries past MaxFd stay as calloc left them.
Tracked(fdmax) == {i \in 0 .. fdmax - 1 : i <= MaxFd}

\* calloc(fdmax, sizeof(*fds)) followed by the loop that sets every fd to -1
FreshFds(fdmax) ==
    [i \in Tracked(fdmax) |-> [fd |-> -1, events |-> {}, revents |-> {}]]

\* calloc(fdmax, sizeof(*datav))
FreshDatav(fdmax) == [i \in Tracked(fdmax) |-> NULL]

\* the kernel object behind a fresh epoll or kqueue descriptor: no interest
\* (epoll: one entry per descriptor; kqueue: one knote per descriptor and filter)
NoReg == [reg |-> FALSE, enabled |-> FALSE, events |-> {}, data |-> NULL]
Filters == {"READ", "WRITE"}
FreshKern(b) ==
    CASE b = "epoll" -> [f \in UserFds |-> NoReg]
      [] b = "kqueue" -> [k \in UserFds \X Filters |-> NoReg]
      [] OTHER -> <<>>

\* what the caller has done and seen
NoHist ==
    [ctls |-> 0,          \* xpoll_ctl calls so far
     waits |-> 0,         \* xpoll_wait calls so far
     create |-> <<0, "none">>,   \* xpoll_create's argument, and the step that failed
     last |-> [op |-> "none",    \* the last call
               cls |-> "none",   \* xpoll_ctl: where its fd lies (FdClass)
               sub |-> <<>>,     \* the change list the call handed to kevent
               top |-> 0,        \* xpoll_ctl: entries in changev after its EV_SETs
               native |-> <<"none", 0, 0, 0>>],
                          \* xpoll_wait: how the bound was handed to the kernel
                          \* ("ms" | "ts" | "null"), timeout, and for "ts"
                          \* tv_sec and tv_nsec
     ready |-> [f \in UserFds |-> {}],   \* readiness seen by the last wait
     waitRet |-> 0,       \* what the last xpoll_wait returned
     left |-> 0,          \* xpoll.nrdy when the last xpoll_wait was called
     pos |-> 0,           \* the last xpoll_wait result above 0, 0 if none
     rets |-> <<>>]       \* what xpoll_revents returned since, call by call

Last(op) == [op |-> op, cls |-> "none", sub |-> <<>>, top |-> 0, native |-> <<"none", 0, 0, 0>>]

\* the call sequences followed:
\*   pat, stage k: the ctl calls so far are the first k of ADD, DELETE,
\*        ADD(events, data) on fd; stage 4: they are not
\*   ed, stage 1: the last ctl call was ENABLE(events) on the registered fd;
\*        stage 2: the last two were that and DISABLE(events) on fd
NoMon ==
    [pat |-> [stage |-> 0, fd |-> 0, events |-> {}, data |-> NULL],
     ed |-> [stage |-> 0, fd |-> 0, events |-> {}]]

\* main() before its first statement
NoRing ==
    [pc |-> "create",     \* the statement main() is at
     i |-> 0,             \* the pipe being set up
     data |-> {},         \* the pipes that hold unread data
     sigalrm |-> FALSE,
     revents |-> {},      \* what xpoll_revents returned, and its conn
     conn |-> 0,
     rd_total |-> 0]

Init ==
    /\ backend \in Backends
    /\ phase = "none"
    /\ xpoll = ZeroXpoll
    /\ kern = <<>>
    /\ heap = {}
    /\ openfds = UserFds
    /\ closed = <<>>
    /\ errno = "0"
    /\ ret = 0
    /\ hist = NoHist
    /\ mon = NoMon
    /\ ring = NoRing

----------------------------------------------------------------------------
(* xpoll_destroy: what it does to a handle x *)

\* the blocks xpoll_destroy frees; the handle itself is not among them
DestroyFrees(b) ==
    (IF b # "kqueue" THEN {"fds", "datav"} ELSE {})
        \cup (IF b \in {"epoll", "kqueue"} THEN {"eventv"} ELSE {})

\* heap, openfds and closed after xpoll_destroy(x), x not NULL
DestroyHeap(h, b) == h \ DestroyFrees(b)

\* close(xpoll->fd)
DestroyOpen(o, x) == o \ {x.fd}

xpoll_destroy ==
    /\ phase = "live"
    /\ phase' = "destroyed"
    /\ closed' = Append(closed, xpoll.fd)
    /\ openfds' = DestroyOpen(openfds, xpoll)
    /\ heap' = DestroyHeap(heap, backend)
    /\ hist' = [hist EXCEPT !.last = Last("destroy")]
    /\ UNCHANGED <<backend, xpoll, kern, errno, ret>>

----------------------------------------------------------------------------
(* xpoll_create(fdmax), where `fail` names the acquisition that fails:     *)
(* "none", or the calloc of "xpoll", "fds", "eventv", "datav", or the       *)
(* creation of the "native" descriptor (epoll_create1, kqueue).             *)

CreateSteps(b) ==
    CASE b = "poll" -> <<"xpoll", "fds", "datav">>
      [] b = "epoll" -> <<"xpoll", "fds", "eventv", "native">>
      [] b = "kqueue" -> <<"xpoll", "eventv", "native">>

StepIndex(b, step) ==
    CHOOSE i \in 1 .. Len(CreateSteps(b)) : CreateSteps(b)[i] = step

\* whether `step` is reached and succeeds when `fail` is the step that fails
Done(b, step, fail) ==
    /\ \E i \in 1 .. Len(CreateSteps(b)) : CreateSteps(b)[i] = step
    /\ \/ fail = "none"
       \/ StepIndex(b, step) < StepIndex(b, fail)

\* the handle as xpoll_create leaves it before the errout label
CreateXpoll(b, fdmax, fail) ==
    [ZeroXpoll EXCEPT
        !.fdmax = fdmax + Slack,
        !.fds = IF Done(b, "fds", fail) THEN FreshFds(fdmax + Slack) ELSE <<>>,
        !.datav = IF Done(b, "datav", fail) THEN FreshDatav(fdmax + Slack) ELSE <<>>,
        !.nfds = IF b # "poll" /\ (b = "kqueue" \/ Done(b, "fds", fail))
                 THEN EventBuf ELSE 0,
        !.eventv = IF Done(b, "datav", fail) THEN "fds"
                   ELSE IF Done(b, "eventv", fail) THEN "eventv" ELSE NULL,
        !.fd = IF Done(b, "native", fail) THEN NativeFd
               ELSE IF fail = "native" THEN -1
               ELSE IF b = "poll" /\ fail = "none" THEN DTableSize
               ELSE 0]

\* the blocks allocated when errout is reached
CreateHeap(b, fail) ==
    {s \in {"xpoll", "fds", "datav", "eventv"} : Done(b, s, fail)}

\* a capacity check that lets 0 through
BadCapacityBelowZero(fdmax) == fdmax < 0

\* the capacity check at the top of xpoll_create
BadCapacity(fdmax) == fdmax < 1

xpoll_create(fdmax, fail) ==
    /\ phase = "none"
    /\ fail \in {"none"} \cup {CreateSteps(backend)[i] : i \in 1 .. Len(CreateSteps(backend))}
    /\ hist' = [hist EXCEPT !.create = <<fdmax, fail>>, !.last = Last("create")]
    /\ IF BadCapacity(fdmax)
       THEN /\ fail = "none"
            /\ errno' = "EINVAL"
            /\ phase' = "failed"
            /\ ret' = 0
            /\ UNCHANGED <<backend, xpoll, kern, heap, openfds, closed>>
       ELSE IF fail = "xpoll"
       THEN /\ errno' = "ENOMEM"
            /\ phase' = "failed"
            /\ ret' = 0
            /\ UNCHANGED <<backend, xpoll, kern, heap, openfds, closed>>
       ELSE LET x == CreateXpoll(backend, fdmax, fail)
                h == CreateHeap(backend, fail)
                o == IF x.fd = NativeFd THEN openfds \cup {NativeFd} ELSE openfds
            IN  /\ xpoll' = x
                /\ UNCHANGED backend
                /\ IF fail # "none"
                   THEN \* errout with errno set: xpoll_destroy(xpoll), return NULL
                        /\ errno' = (IF fail = "native" THEN "EMFILE" ELSE "ENOMEM")
                        /\ phase' = "failed"
                        /\ ret' = 0
                        /\ kern' = kern
                        /\ closed' = Append(closed, x.fd)
                        /\ openfds' = DestroyOpen(o, x)
                        /\ heap' = DestroyHeap(h, backend)
                   ELSE /\ errno' = "0"
                        /\ phase' = "live"
                        /\ ret' = 1
                        /\ kern' = FreshKern(backend)
                        /\ closed' = closed
                        /\ openfds' = o
                        /\ heap' = h

----------------------------------------------------------------------------
(* The kernel side of xpoll_ctl *)

\* epoll: XPOLL_ADD .. XPOLL_DISABLE as xpoll.h defines them
EPOLL_CTL_ADD == 1
EPOLL_CTL_DEL == 2
EPOLL_CTL_MOD == 3
DisableBit == 4096     \* 0x1000
OpCode(op) ==
    CASE op = XPOLL_ADD -> EPOLL_CTL_ADD
      [] op = XPOLL_DELETE -> EPOLL_CTL_DEL
      [] op = XPOLL_ENABLE -> EPOLL_CTL_MOD
      [] op = XPOLL_DISABLE -> EPOLL_CTL_MOD + DisableBit

\* op & 0xff
NativeOp(op) == OpCode(op) % 256

\* epoll_ctl(xpoll->fd, nop, fd, &change) on interest list k: the new list and errno
EpollCtl(k, nop, fd, change) ==
    IF fd \notin UserFds
    THEN [kern |-> k, err |-> "EBADF"]
    ELSE IF nop = EPOLL_CTL_ADD
    THEN IF k[fd].reg
         THEN [kern |-> k, err |-> "EEXIST"]
         ELSE [kern |-> [k EXCEPT ![fd] = [reg |-> TRUE, enabled |-> TRUE,
                                          events |-> change.events,
                                          data |-> change.data]],
               err |-> "0"]
    ELSE IF ~k[fd].reg
    THEN [kern |-> k, err |-> "ENOENT"]
    ELSE IF nop = EPOLL_CTL_DEL
    THEN [kern |-> [k EXCEPT ![fd] = NoReg], err |-> "0"]
    ELSE [kern |-> [k EXCEPT ![fd] = [reg |-> TRUE, enabled |-> TRUE,
                                     events |-> change.events,
                                     data |-> change.data]],
          err |-> "0"]

\* kevent(2) registering one change c = [ident, filter, flags, udata]
KqRegister(k, c) ==
    LET key == <<c.ident, c.filter>>
    IN  IF c.ident \notin UserFds
        THEN [kern |-> k, err |-> "EBADF"]
        ELSE IF c.flags = XPOLL_ADD
        THEN [kern |-> [k EXCEPT ![key] =
                          [reg |-> TRUE,
                           enabled |-> IF k[key].reg THEN k[key].enabled ELSE TRUE,
                           events |-> {}, data |-> c.udata]],
              err |-> "0"]
        ELSE IF ~k[key].reg
        THEN [kern |-> k, err |-> "ENOENT"]
        ELSE IF c.flags = XPOLL_DELETE
        THEN [kern |-> [k EXCEPT ![key] = NoReg], err |-> "0"]
        ELSE [kern |-> [k EXCEPT ![key] =
                          [reg |-> TRUE, enabled |-> c.flags = XPOLL_ENABLE,
                           events |-> {}, data |-> c.udata]],
              err |-> "0"]

\* an entry of eventv.  fd is the descriptor the kernel made the entry for.
Event(fd, filter, flags, events, data) ==
    [fd |-> fd, filter |-> filter, flags |-> flags, events |-> events, data |-> data]

\* kevent(2) working through changelist cl with room for `room` events:
\* [kern, evs (the EV_ERROR entries), err (errno of the change that stopped it)]
RECURSIVE KqChanges(_, _, _, _)
KqChanges(k, cl, room, evs) ==
    IF cl = <<>>
    THEN [kern |-> k, evs |-> evs, err |-> "0"]
    ELSE LET r == KqRegister(k, Head(cl))
         IN  IF r.err = "0"
             THEN KqChanges(r.kern, Tail(cl), room, evs)
             ELSE IF room > 0
             THEN KqChanges(r.kern, Tail(cl), room - 1,
                            Append(evs, Event(Head(cl).ident, Head(cl).filter,
                                              {"EV_ERROR"}, {}, Head(cl).udata)))
             ELSE [kern |-> r.kern, evs |-> evs, err |-> r.err]

----------------------------------------------------------------------------
(* xpoll_ctl(xpoll, op, events, fd, data) *)

\* events &= POLLIN | POLLOUT
MaskEvents(events) == events \cap {POLLIN, POLLOUT}

\* the new fds[fd].events
CtlEvents(old, op, events) ==
    IF op = XPOLL_ADD \/ op = XPOLL_ENABLE
    THEN old \cup MaskEvents(events)
    ELSE IF op = XPOLL_DELETE \/ op = XPOLL_DISABLE
    THEN old \ MaskEvents(events)
    ELSE old

\* the new fds[fd].fd
CtlFd(op, fd) == IF op = XPOLL_DELETE THEN -1 ELSE fd

\* the fds table after the poll/epoll part of xpoll_ctl
CtlFds(x, op, events, fd) ==
    [x.fds EXCEPT ![fd] = [fd |-> CtlFd(op, fd),
                           events |-> CtlEvents(x.fds[fd].events, op, events),
                           revents |-> x.fds[fd].revents]]

\* the entries EV_SET appends to changev (kqueue)
CtlChanges(op, events, fd, data) ==
    (IF POLLIN \in events
     THEN <<[ident |-> fd, filter |-> "READ", flags |-> op, udata |-> data]>>
     ELSE <<>>)
    \o (IF POLLOUT \in events
        THEN <<[ident |-> fd, filter |-> "WRITE", flags |-> op, udata |-> data]>>
        ELSE <<>>)

\* a batch flushed only once every slot of changev is taken
FlushWhenFull(changec) == changec >= NChange

\* xpoll->changec >= NELEM(xpoll->changev) - 1
FlushNeeded(changec) == changec >= NChange - 1

\* a change list that leaves the last pending entry out
PendingButLast(x) == SubSeq(x.changev, 1, x.changec - 1)

\* the change list handed to kevent: xpoll->changev, xpoll->changec
Pending(x) == SubSeq(x.changev, 1, x.changec)

\* fd < 0: abort()
CtlAborts(fd) == fd < 0

\* a range check against the capacity passed to xpoll_create, without the slack
CtlRejectsAtCapacity(b, x, fd) == b # "kqueue" /\ fd >= x.fdmax - Slack

\* fd >= xpoll->fdmax: EINVAL (poll, epoll)
CtlRejects(b, x, fd) == b # "kqueue" /\ fd >= x.fdmax

\* where fd lies: below 0, in [0, capacity), in the slack [capacity, fdmax),
\* or at or past the end of the table
FdClass(fd, capacity, fdmax) ==
    IF fd < 0 THEN "neg"
    ELSE IF fd < capacity THEN "in"
    ELSE IF fd < fdmax THEN "slack"
    ELSE "big"

\* a scan length that follows the last descriptor named
CtlNfdsLast(x, fd) == fd + 1

\* if (fd >= xpoll->nfds) xpoll->nfds = fd + 1
CtlNfds(x, fd) == IF fd >= x.nfds THEN fd + 1 ELSE x.nfds

xpoll_ctl(op, events, fd, data) ==
    LET cv == xpoll.changev \o CtlChanges(op, events, fd, data)
        batch == [xpoll EXCEPT !.changev = cv, !.changec = Len(cv)]
        kq == backend = "kqueue" /\ ~CtlAborts(fd)
        flush == kq /\ FlushNeeded(batch.changec)
    IN
    /\ phase = "live"
    /\ hist' = [hist EXCEPT !.ctls = @ + 1,
                            !.last = [Last("ctl") EXCEPT
                                        !.cls = FdClass(fd, hist.create[1], xpoll.fdmax),
                                        !.sub = IF flush THEN Pending(batch) ELSE <<>>,
                                        !.top = IF kq THEN Len(cv) ELSE 0]]
    /\ UNCHANGED <<backend, heap, openfds, closed>>
    /\ IF CtlAborts(fd)
       THEN /\ phase' = "aborted"
            /\ UNCHANGED <<xpoll, kern, errno, ret>>
       ELSE IF CtlRejects(backend, xpoll, fd)
       THEN /\ errno' = "EINVAL"
            /\ ret' = -1
            /\ UNCHANGED <<phase, xpoll, kern>>
       ELSE /\ phase' = phase
            /\ CASE backend = "poll" ->
                     /\ xpoll' = [xpoll EXCEPT
                            !.fds = CtlFds(xpoll, op, events, fd),
                            !.nfds = CtlNfds(xpoll, fd),
                            !.datav = [xpoll.datav EXCEPT ![fd] = data]]
                     /\ ret' = 0
                     /\ UNCHANGED <<kern, errno>>
                 [] backend = "epoll" ->
                     LET fds == CtlFds(xpoll, op, events, fd)
                         change == [events |-> fds[fd].events, data |-> data]
                         r == EpollCtl(kern, NativeOp(op), fd, change)
                     IN  /\ xpoll' = [xpoll EXCEPT !.fds = fds]
                         /\ kern' = r.kern
                         /\ ret' = (IF r.err = "0" THEN 0 ELSE -1)
                         /\ errno' = (IF r.err = "0" THEN errno ELSE r.err)
                 [] backend = "kqueue" ->
                     LET r == KqChanges(kern, Pending(batch), 0, <<>>)
                     IN  IF flush
                         THEN /\ xpoll' = [xpoll EXCEPT !.changev = <<>>, !.changec = 0]
                              /\ kern' = r.kern
                              /\ ret' = (IF r.err = "0" THEN 0 ELSE -1)
                              /\ errno' = (IF r.err = "0" THEN errno ELSE r.err)
                         ELSE /\ xpoll' = batch
                              /\ ret' = 0
                              /\ UNCHANGED <<kern, errno>>

----------------------------------------------------------------------------
(* The kernel side of xpoll_wait.  rdy[f] is what descriptor f is ready    *)
(* for when the call is made: a subset of {IN, OUT, HUP}.                  *)

ReadySets == {{}, {POLLIN}, {POLLOUT}, {POLLIN, POLLOUT}}

\* always reported by poll(2) and epoll(7), requested or not
AlwaysReported == {POLLERR, POLLHUP}

RdyOf(rdy, fd) == IF fd \in DOMAIN rdy THEN rdy[fd] ELSE {}

\* always reported by poll(2): POLLNVAL is the answer for a descriptor that is
\* not open
PollAlways == AlwaysReported \cup {POLLNVAL}

\* poll(2): the revents of one struct pollfd
PollRevents(f, rdy) ==
    IF f.fd < 0 THEN {} ELSE RdyOf(rdy, f.fd) \cap (f.events \cup PollAlways)

\* poll(2): fds after the call on the first nfds entries
PollFds(fds, nfds, rdy) ==
    [i \in DOMAIN fds |->
        IF i < nfds THEN [fds[i] EXCEPT !.revents = PollRevents(fds[i], rdy)]
        ELSE fds[i]]

\* poll(2): the number of entries with nonzero revents
PollCount(fds, nfds) == Cardinality({i \in DOMAIN fds : i < nfds /\ fds[i].revents # {}})

\* the elements of a set of integers in ascending order
RECURSIVE Ascending(_)
Ascending(S) ==
    IF S = {} THEN <<>>
    ELSE LET m == CHOOSE x \in S : \A y \in S : x <= y
         IN  <<m>> \o Ascending(S \ {m})

\* epoll_wait(2): the ready list
EpollEvents(k, rdy) ==
    LET hit == {f \in DOMAIN k : k[f].reg /\ rdy[f] \cap (k[f].events \cup AlwaysReported) # {}}
        order == Ascending(hit)
    IN  [i \in 1 .. Len(order) |->
            Event(order[i], "NONE", {},
                  rdy[order[i]] \cap (k[order[i]].events \cup AlwaysReported),
                  k[order[i]].data)]

\* kevent(2): whether the knote of (f, filter) has fired
KqActive(rdy, f, filter) ==
    \/ POLLHUP \in rdy[f]
    \/ filter = "READ" /\ POLLIN \in rdy[f]
    \/ filter = "WRITE" /\ POLLOUT \in rdy[f]

\* kevent(2): the events of the scan
KqEvents(k, rdy) ==
    LET rd == Ascending({f \in UserFds : k[<<f, "READ">>].reg /\ k[<<f, "READ">>].enabled
                                            /\ KqActive(rdy, f, "READ")})
        wr == Ascending({f \in UserFds : k[<<f, "WRITE">>].reg /\ k[<<f, "WRITE">>].enabled
                                            /\ KqActive(rdy, f, "WRITE")})
        Ev(f, filter) == Event(f, filter,
                               IF POLLHUP \in rdy[f] THEN {"EV_EOF"} ELSE {},
                               {}, k[<<f, filter>>].data)
    IN  [i \in 1 .. Len(rd) |-> Ev(rd[i], "READ")]
            \o [i \in 1 .. Len(wr) |-> Ev(wr[i], "WRITE")]

\* the first `room` entries
Truncate(evs, room) == IF Len(evs) > room THEN SubSeq(evs, 1, room) ELSE evs

----------------------------------------------------------------------------
(* xpoll_wait(xpoll, timeout) *)

\* int arithmetic (32 bits, two's complement), without leaving that range
AddWrap(a, b) ==
    IF a > 0 /\ b > 2147483647 - a
    THEN ((a - 2147483647) - 1) + ((b - 2147483647) - 1)
    ELSE IF a < 0 /\ b < (-2147483647 - 1) - a
    THEN ((a + 2147483647) + 1) + ((b + 2147483647) + 1)
    ELSE a + b

RECURSIVE MulWrap(_, _)
MulWrap(a, b) ==
    IF b = 0 THEN 0
    ELSE IF b % 2 = 1
    THEN AddWrap(a, MulWrap(AddWrap(a, a), b \div 2))
    ELSE MulWrap(AddWrap(a, a), b \div 2)

\* whether a * b does not fit an int (a, b >= 0)
MulOverflows(a, b) == b > 0 /\ a > 2147483647 \div b

\* the C operators / and % (truncation toward zero)
CDiv(a, b) == IF a >= 0 THEN a \div b ELSE -((-a) \div b)
CRem(a, b) == IF a >= 0 THEN a % b ELSE -((-a) % b)

\* tsbuf.tv_sec = timeout / 1000
TvSec(timeout) == CDiv(timeout, 1000)

\* tsbuf.tv_nsec = (timeout * 1000000) % 1000000: the values the build can give.
\* The product is undefined when it does not fit an int: the wrapped product, or
\* the 0 of a compiler that folds (x * c) % c.
TvNsec(timeout) ==
    IF MulOverflows(timeout, 1000000)
    THEN {CRem(MulWrap(timeout, 1000000), 1000000), 0}
    ELSE {CRem(timeout * 1000000, 1000000)}

\* kevent(2) rejects a timespec that is not normalised
BadTimespec(sec, nsec) == sec < 0 \/ nsec < 0 \/ nsec >= 1000000000

\* The native call of xpoll_wait on each backend, a signal interrupting the
\* blocked call when intr: [ok (the call returns), x, kern, ret, errno, native]
WaitResult(ok, x, k, r, e, native) ==
    [ok |-> ok, x |-> x, kern |-> k, ret |-> r, errno |-> e, native |-> native]

PollWait(x, k, timeout, rdy, intr) ==
    LET fds == PollFds(x.fds, x.nfds, rdy)
        cnt == PollCount(fds, x.nfds)
        native == <<"ms", timeout, 0, 0>>
    IN  IF intr
        THEN WaitResult(cnt = 0 /\ timeout # 0, [x EXCEPT !.nrdy = -1], k,
                        -1, "EINTR", native)
        ELSE WaitResult(cnt > 0 \/ timeout >= 0, [x EXCEPT !.nrdy = cnt, !.fds = fds], k,
                        cnt, errno, native)

EpollWait(x, k, timeout, rdy, intr) ==
    LET evs == Truncate(EpollEvents(k, rdy), x.nfds)
        cnt == Len(evs)
        native == <<"ms", timeout, 0, 0>>
    IN  IF intr
        THEN WaitResult(cnt = 0 /\ timeout # 0, [x EXCEPT !.nrdy = -1], k,
                        -1, "EINTR", native)
        ELSE WaitResult(cnt > 0 \/ timeout >= 0,
                        [x EXCEPT !.nrdy = cnt, !.ev = IF cnt > 0 THEN evs ELSE x.ev], k,
                        cnt, errno, native)

KqueueWait(x0, k, timeout, rdy, intr, nsec) ==
    LET ch == KqChanges(k, Pending(x0), x0.nfds, <<>>)
        evs == Truncate(KqEvents(ch.kern, rdy), x0.nfds)
        cnt == Len(evs)
        sec == TvSec(timeout)
        native == IF timeout >= 0 THEN <<"ts", timeout, sec, nsec>>
                  ELSE <<"null", timeout, 0, 0>>
        x == [x0 EXCEPT !.changev = <<>>, !.changec = 0]
    IN  IF ch.evs # <<>>
        THEN \* rejected changes come back as EV_ERROR events, without waiting
             WaitResult(~intr, [x EXCEPT !.nrdy = Len(ch.evs), !.ev = ch.evs], ch.kern,
                        Len(ch.evs), errno, native)
        ELSE IF timeout >= 0 /\ BadTimespec(sec, nsec)
        THEN WaitResult(~intr, [x EXCEPT !.nrdy = -1], ch.kern, -1, "EINVAL", native)
        ELSE IF intr
        THEN WaitResult(cnt = 0 /\ (timeout < 0 \/ sec > 0 \/ nsec > 0),
                        [x EXCEPT !.nrdy = -1], ch.kern, -1, "EINTR", native)
        ELSE WaitResult(cnt > 0 \/ timeout >= 0,
                        [x EXCEPT !.nrdy = cnt, !.ev = IF cnt > 0 THEN evs ELSE x.ev],
                        ch.kern, cnt, errno, native)

\* a cursor left where the last cycle stopped
WaitCursorKept(x) == x.n

\* xpoll->n = 0
WaitCursor(x) == 0

\* nsec: the value tv_nsec takes (kqueue)
xpoll_wait(timeout, rdy, intr, nsec) ==
    /\ phase = "live"
    /\ backend # "kqueue" => nsec = 0
    /\ LET x == [xpoll EXCEPT !.n = WaitCursor(xpoll)]
           r == CASE backend = "poll" -> PollWait(x, kern, timeout, rdy, intr)
                  [] backend = "epoll" -> EpollWait(x, kern, timeout, rdy, intr)
                  [] backend = "kqueue" -> KqueueWait(x, kern, timeout, rdy, intr, nsec)
       IN  /\ r.ok
           /\ xpoll' = r.x
           /\ kern' = r.kern
           /\ ret' = r.ret
           /\ errno' = r.errno
           /\ hist' = [hist EXCEPT !.waits = @ + 1,
                                   !.last = [Last("wait") EXCEPT
                                               !.native = r.native,
                                               !.sub = IF backend = "kqueue"
                                                       THEN Pending(x) ELSE <<>>],
                                   !.ready = rdy,
                                   !.waitRet = r.ret,
                                   !.left = xpoll.nrdy,
                                   !.pos = IF r.ret > 0 THEN r.ret ELSE @,
                                   !.rets = <<>>]
    /\ UNCHANGED <<backend, phase, heap, openfds, closed>>

----------------------------------------------------------------------------
(* xpoll_revents(xpoll, datap) *)

\* event = xpoll->eventv: the slot the scan of the poll backend starts at
ScanStart(x) == 0

\* the while loop of the poll backend, event at slot k: where it stops
RECURSIVE PollScan(_, _, _)
PollScan(x, n, k) ==
    IF n < x.nfds
    THEN IF x.fds[k].revents # {}
         THEN [found |-> TRUE, n |-> n, k |-> k]
         ELSE PollScan(x, n + 1, k + 1)
    ELSE [found |-> FALSE, n |-> n, k |-> k]

\* the data of the first slot, whatever the cursor
PollDataFirst(x, n) == x.datav[0]

\* *datap = xpoll->datav[xpoll->n]
PollData(x, n) == x.datav[n]

\* kqueue: the poll bits of a kevent
KqFlags(event) ==
    (IF event.filter = "READ" THEN {POLLIN}
     ELSE IF event.filter = "WRITE" THEN {POLLOUT} ELSE {})
    \cup (IF "EV_ERROR" \in event.flags THEN {POLLERR} ELSE {})

\* what a call returns: flags (the return value, {} is 0), *datap, and the
\* slots the flags (src) and the data (didx) were read from
Yield(flags, data, src, didx) ==
    [flags |-> flags, data |-> data, src |-> src, didx |-> didx]
None == Yield({}, NULL, -1, -1)

\* xpoll->nrdy < 1: nothing left
Exhausted(x) == x.nrdy < 1

\* [x |-> the handle afterwards, y |-> what is returned]
Revents(b, x) ==
    IF Exhausted(x)
    THEN [x |-> x, y |-> None]
    ELSE CASE b = "epoll" ->
                LET event == x.ev[x.n + 1]
                IN  [x |-> [x EXCEPT !.nrdy = @ - 1, !.n = @ + 1],
                     y |-> Yield(event.events, event.data, event.fd, event.fd)]
           [] b = "kqueue" ->
                LET event == x.ev[x.n + 1]
                IN  [x |-> [x EXCEPT !.nrdy = @ - 1, !.n = @ + 1],
                     y |-> Yield(KqFlags(event), event.data, event.fd, event.fd)]
           [] b = "poll" ->
                LET s == PollScan(x, x.n, ScanStart(x))
                IN  IF s.found
                    THEN [x |-> [x EXCEPT !.nrdy = @ - 1, !.n = s.n + 1],
                          y |-> Yield(x.fds[s.k].revents, PollData(x, s.n), s.k, s.n)]
                    ELSE [x |-> [x EXCEPT !.n = s.n], y |-> None]

xpoll_revents ==
    /\ phase = "live"
    /\ LET r == Revents(backend, xpoll)
       IN  /\ xpoll' = r.x
           /\ hist' = [hist EXCEPT !.rets = Append(@, r.y),
                                   !.last = Last("revents")]
           /\ ret' = (IF r.y.flags = {} THEN 0 ELSE 1)
    /\ UNCHANGED <<backend, phase, kern, heap, openfds, closed, errno>>

----------------------------------------------------------------------------
(* The caller *)

Capacities == -1 .. MaxCap
FailSteps == {"none", "xpoll", "fds", "datav", "eventv", "native"}
EventInputs == {{POLLIN}, {POLLOUT}, {POLLIN, POLLOUT}}
FdInputs == {-1} \cup UserFds \cup {xpoll.fdmax}
Timeouts == {-1, 0}

\* the token the caller registers descriptor fd with (main.c: its struct conn)
DataOf(fd) == "d" \o ToString(fd)

\* descriptors the caller has handed to xpoll_ctl: only their readiness matters
Used ==
    IF phase # "live" THEN {}
    ELSE IF backend = "kqueue"
    THEN {f \in UserFds :
            \/ \E flt \in Filters : kern[<<f, flt>>].reg
            \/ \E i \in 1 .. Len(xpoll.changev) : xpoll.changev[i].ident = f}
    ELSE {f \in UserFds : xpoll.fds[f].fd >= 0 \/ xpoll.fds[f].events # {}}
Readiness == {r \in [UserFds -> ReadySets] : \A f \in UserFds \ Used : r[f] = {}}

\* the caller's calls, within the bounds: configure, wait, drain
Create == \E fdmax \in Capacities, fail \in FailSteps : xpoll_create(fdmax, fail)
Destroy == hist.waits = 0 /\ xpoll_destroy
Ctl(fds) ==
    /\ hist.ctls < MaxCtl
    /\ hist.waits = 0
    /\ \E op \in Ops, events \in EventInputs, fd \in fds :
          xpoll_ctl(op, events, fd, DataOf(fd))
WaitCall(timeouts) ==
    \E timeout \in timeouts, rdy \in Readiness, intr \in BOOLEAN :
        \E nsec \in (IF timeout >= 0 THEN TvNsec(timeout) ELSE {0}) :
            xpoll_wait(timeout, rdy, intr, nsec)
Wait(timeouts) == hist.waits < MaxWait /\ WaitCall(timeouts)
Drain ==
    /\ hist.waits > 0
    /\ Len(hist.rets) < MaxCalls
    /\ xpoll_revents

Next ==
    \/ Create /\ UNCHANGED <<mon, ring>>
    \/ Destroy /\ UNCHANGED <<mon, ring>>
    \/ Ctl(FdInputs) /\ UNCHANGED <<mon, ring>>
    \/ Wait(Timeouts) /\ UNCHANGED <<mon, ring>>
    \/ Drain /\ UNCHANGED <<mon, ring>>

Spec == Init /\ [][Next]_vars

----------------------------------------------------------------------------
(* The caller setting a handle up, never waiting *)

NextCtl ==
    \/ Create /\ UNCHANGED <<mon, ring>>
    \/ xpoll_destroy /\ UNCHANGED <<mon, ring>>
    \/ Ctl(FdInputs) /\ UNCHANGED <<mon, ring>>

SpecCtl == Init /\ [][NextCtl]_vars

----------------------------------------------------------------------------
(* The caller working on few descriptors, its call sequences followed *)

SeqFds == 0 .. SeqFd

\* whether descriptor fd has been added and not deleted since
Registered(b, x, k, fd) ==
    CASE b = "poll" -> x.fds[fd].fd >= 0
      [] b = "epoll" -> k[fd].reg
      [] b = "kqueue" ->
            LET kk == KqChanges(k, x.changev, NChange, <<>>).kern
            IN  \E flt \in Filters : kk[<<fd, flt>>].reg

PatNext(pat, op, events, fd, data) ==
    IF pat.stage = 0 /\ op = XPOLL_ADD
    THEN [stage |-> 1, fd |-> fd, events |-> {}, data |-> NULL]
    ELSE IF pat.stage = 1 /\ op = XPOLL_DELETE /\ fd = pat.fd
    THEN [pat EXCEPT !.stage = 2]
    ELSE IF pat.stage = 2 /\ op = XPOLL_ADD /\ fd = pat.fd
    THEN [stage |-> 3, fd |-> fd, events |-> events, data |-> data]
    ELSE [stage |-> 4, fd |-> 0, events |-> {}, data |-> NULL]

EdNext(ed, op, events, fd) ==
    IF op = XPOLL_ENABLE /\ Registered(backend, xpoll, kern, fd)
    THEN [stage |-> 1, fd |-> fd, events |-> events]
    ELSE IF op = XPOLL_DISABLE /\ ed.stage = 1 /\ fd = ed.fd /\ events = ed.events
    THEN [ed EXCEPT !.stage = 2]
    ELSE [stage |-> 0, fd |-> 0, events |-> {}]

CtlSeq ==
    /\ hist.ctls < SeqCtl
    /\ Len(xpoll.changev) < SeqPending
    /\ hist.waits = 0
    /\ \E op \in Ops, events \in EventInputs, fd \in SeqFds :
          /\ xpoll_ctl(op, events, fd, DataOf(fd))
          /\ mon' = [pat |-> PatNext(mon.pat, op, events, fd, DataOf(fd)),
                     ed |-> EdNext(mon.ed, op, events, fd)]
          /\ UNCHANGED ring

NextSeq ==
    \/ xpoll_create(SeqFd + 1, "none") /\ UNCHANGED <<mon, ring>>
    \/ CtlSeq
    \/ Wait({-1}) /\ UNCHANGED <<mon, ring>>
    \/ Drain /\ UNCHANGED <<mon, ring>>

SpecSeq == Init /\ [][NextSeq]_vars

----------------------------------------------------------------------------
(* The caller trying timeouts *)

\* 2148 is the first timeout whose product with 1000000 does not fit an int
WaitTimeouts == {-1, 0, 1, 999, 1000, 1500, 2147, 2148}

NextTimeout ==
    \/ xpoll_create(1, "none") /\ UNCHANGED <<mon, ring>>
    \/ Ctl({0}) /\ UNCHANGED <<mon, ring>>
    \/ Wait(WaitTimeouts) /\ UNCHANGED <<mon, ring>>
    \/ Drain /\ UNCHANGED <<mon, ring>>

SpecTimeout == Init /\ [][NextTimeout]_vars

----------------------------------------------------------------------------
(* The caller going through wait cycles one after the other *)

\* the descriptors of these runs, and one past the table
TwoFds == SeqFds \cup {xpoll.fdmax}

NextTwo ==
    \/ xpoll_create(SeqFd + 1, "none") /\ UNCHANGED <<mon, ring>>
    \/ Ctl(TwoFds) /\ UNCHANGED <<mon, ring>>
    \/ hist.waits < TwoWait /\ WaitCall(Timeouts) /\ UNCHANGED <<mon, ring>>
    \/ Drain /\ UNCHANGED <<mon, ring>>

SpecTwo == Init /\ [][NextTwo]_vars

----------------------------------------------------------------------------
(* The caller filling the change list of the kqueue build, call after call *)

BatchOps == {XPOLL_ADD, XPOLL_DELETE}
BatchEvents == SUBSET {POLLIN, POLLOUT}

InitBatch == Init /\ backend = "kqueue"

CtlBatch ==
    /\ hist.ctls < BatchCtl
    /\ \E op \in BatchOps, events \in BatchEvents : xpoll_ctl(op, events, 0, DataOf(0))

\* a poll of the queue while no descriptor is ready
WaitBatch ==
    /\ hist.waits < TwoWait
    /\ \E intr \in BOOLEAN : xpoll_wait(0, [f \in UserFds |-> {}], intr, 0)

NextBatch ==
    \/ xpoll_create(1, "none") /\ UNCHANGED <<mon, ring>>
    \/ CtlBatch /\ UNCHANGED <<mon, ring>>
    \/ WaitBatch /\ UNCHANGED <<mon, ring>>

SpecBatch == InitBatch /\ [][NextBatch]_vars

----------------------------------------------------------------------------
(* The caller waiting on descriptors whose peer has hung up, or that it has *)
(* closed without XPOLL_DELETE                                              *)

HupSets == ReadySets \cup {{POLLHUP}, {POLLIN, POLLHUP}, {POLLNVAL}}
HupReadiness == {r \in [UserFds -> HupSets] : \A f \in UserFds \ Used : r[f] = {}}

WaitHup ==
    /\ hist.waits < MaxWait
    /\ \E rdy \in HupReadiness, intr \in BOOLEAN : xpoll_wait(-1, rdy, intr, 0)

NextHup ==
    \/ xpoll_create(SeqFd + 1, "none") /\ UNCHANGED <<mon, ring>>
    \/ Ctl(SeqFds) /\ UNCHANGED <<mon, ring>>
    \/ WaitHup /\ UNCHANGED <<mon, ring>>
    \/ Drain /\ UNCHANGED <<mon, ring>>

SpecHup == Init /\ [][NextHup]_vars

----------------------------------------------------------------------------
(* main() of src/main.c: connc pipes in a ring.  Pipe i has the descriptors *)
(* 2i (read end) and 2i + 1 (write end); connc is as large as the           *)
(* descriptors of the model allow.                                          *)

Connc == (MaxFd + 1) \div 2
Pipes == 0 .. Connc - 1
RdEnd(i) == 2 * i
WrEnd(i) == 2 * i + 1

\* the conn pointer main() registers both ends of pipe i with
ConnOf(i) == "c" \o ToString(i)
ConnIndex(data) ==
    IF \E i \in Pipes : ConnOf(i) = data
    THEN CHOOSE i \in Pipes : ConnOf(i) = data
    ELSE -1

\* a ring that hands the token back to the pipe it came from
WconnSame(rconn) == rconn

\* wconn = rconn + 1; if (wconn >= connv + connc) wconn = connv
Wconn(rconn) == IF rconn + 1 >= Connc THEN 0 ELSE rconn + 1

\* what the pipes are ready for: a read end with unread data is readable, a
\* write end is writable (a pipe never holds more than rwmax bytes here)
RingReady ==
    [f \in UserFds |->
        IF \E i \in Pipes : f = RdEnd(i) /\ i \in ring.data THEN {POLLIN}
        ELSE IF \E i \in Pipes : f = WrEnd(i) THEN {POLLOUT}
        ELSE {}]

LibUnchanged ==
    UNCHANGED <<backend, phase, xpoll, kern, heap, openfds, closed, errno, ret, hist>>

\* xpoll = xpoll_create(connc * 2)
RingCreate ==
    /\ ring.pc = "create"
    /\ \E fail \in FailSteps : xpoll_create(Connc * 2, fail)
    /\ ring' = [ring EXCEPT !.pc = IF ret' = 0 THEN "exit" ELSE "add_in"]

\* pipe(conn->fd); xpoll_ctl(xpoll, XPOLL_ADD, POLLIN, conn->fd[0], conn)
RingAddIn ==
    /\ ring.pc = "add_in"
    /\ xpoll_ctl(XPOLL_ADD, {POLLIN}, RdEnd(ring.i), ConnOf(ring.i))
    /\ ring' = [ring EXCEPT !.pc = IF ret' # 0 THEN "exit" ELSE "add_out"]

\* xpoll_ctl(xpoll, XPOLL_ADD, POLLOUT, conn->fd[1], conn)
RingAddOut ==
    /\ ring.pc = "add_out"
    /\ xpoll_ctl(XPOLL_ADD, {POLLOUT}, WrEnd(ring.i), ConnOf(ring.i))
    /\ ring' = [ring EXCEPT !.pc = IF ret' # 0 THEN "exit" ELSE "disable"]

\* xpoll_ctl(xpoll, XPOLL_DISABLE, POLLOUT, conn->fd[1], conn); ++i
RingDisable ==
    /\ ring.pc = "disable"
    /\ xpoll_ctl(XPOLL_DISABLE, {POLLOUT}, WrEnd(ring.i), ConnOf(ring.i))
    /\ ring' = [ring EXCEPT !.i = @ + 1,
                            !.pc = IF ring.i + 1 < Connc THEN "add_in" ELSE "first_write"]

\* write(connv->fd[1], rwbuf, rwmax)
RingFirstWrite ==
    /\ ring.pc = "first_write"
    /\ ring' = [ring EXCEPT !.data = @ \cup {0}, !.pc = "loop"]
    /\ LibUnchanged

LoopPcs == {"loop", "revents", "in", "enable", "out", "write"}

\* sigalrm_isr
RingAlarm ==
    /\ ring.pc \in LoopPcs
    /\ ~ring.sigalrm
    /\ ring' = [ring EXCEPT !.sigalrm = TRUE]
    /\ LibUnchanged

\* while (!sigalrm) { n = xpoll_wait(xpoll, INFTIM); if (n < 1) continue;
RingWaitCall ==
    /\ ring.pc = "loop"
    /\ ~ring.sigalrm
    /\ hist.waits < RingWait
    /\ \E intr \in BOOLEAN :
          /\ xpoll_wait(-1, RingReady, intr, 0)
          /\ ring' = [ring EXCEPT !.pc = IF ret' < 1 THEN "loop" ELSE "revents",
                                  !.sigalrm = intr]

\* revents = xpoll_revents(xpoll, &conn); if (!revents) break;
\* if (revents & (POLLERR | POLLHUP)) goto errout
RingRevents ==
    /\ ring.pc = "revents"
    /\ xpoll_revents
    /\ LET y == hist'.rets[Len(hist'.rets)]
       IN  ring' = IF y.flags = {}
                   THEN [ring EXCEPT !.pc = "loop"]
                   ELSE IF y.flags \cap {POLLERR, POLLHUP} # {}
                   THEN [ring EXCEPT !.pc = "destroy"]
                   ELSE [ring EXCEPT !.pc = IF ConnIndex(y.data) < 0 THEN "crash" ELSE "in",
                                     !.revents = y.flags,
                                     !.conn = ConnIndex(y.data)]

\* if (revents & POLLIN) { rcc = read(rconn->fd[0], rwbuf, rwmax): a read of
\* an empty pipe does not return
RingRead ==
    /\ ring.pc = "in"
    /\ ring' = IF POLLIN \notin ring.revents
               THEN [ring EXCEPT !.pc = "out"]
               ELSE IF ring.conn \in ring.data
               THEN [ring EXCEPT !.data = @ \ {ring.conn}, !.pc = "enable"]
               ELSE [ring EXCEPT !.pc = "blocked"]
    /\ LibUnchanged

\* xpoll_ctl(xpoll, XPOLL_ENABLE, POLLOUT, wconn->fd[1], wconn); ++rd_total
RingEnable ==
    /\ ring.pc = "enable"
    /\ xpoll_ctl(XPOLL_ENABLE, {POLLOUT}, WrEnd(Wconn(ring.conn)), ConnOf(Wconn(ring.conn)))
    /\ ring' = IF ret' # 0
               THEN [ring EXCEPT !.pc = "destroy"]
               ELSE [ring EXCEPT !.pc = "out", !.rd_total = @ + 1]

\* if (revents & POLLOUT) xpoll_ctl(xpoll, XPOLL_DISABLE, POLLOUT, wconn->fd[1], wconn)
RingDisableOut ==
    /\ ring.pc = "out"
    /\ POLLOUT \in ring.revents
    /\ xpoll_ctl(XPOLL_DISABLE, {POLLOUT}, WrEnd(ring.conn), ConnOf(ring.conn))
    /\ ring' = [ring EXCEPT !.pc = IF ret' # 0 THEN "destroy" ELSE "write"]

\* revents without POLLOUT: back to xpoll_revents
RingSkipOut ==
    /\ ring.pc = "out"
    /\ POLLOUT \notin ring.revents
    /\ ring' = [ring EXCEPT !.pc = "revents"]
    /\ LibUnchanged

\* wcc = write(wconn->fd[1], rwbuf, rwmax)
RingWrite ==
    /\ ring.pc = "write"
    /\ ring' = [ring EXCEPT !.data = @ \cup {ring.conn}, !.pc = "revents"]
    /\ LibUnchanged

\* the loop left on sigalrm
RingLeave ==
    /\ ring.pc = "loop"
    /\ ring.sigalrm
    /\ ring' = [ring EXCEPT !.pc = "destroy"]
    /\ LibUnchanged

\* errout: xpoll_destroy(xpoll)
RingDestroy ==
    /\ ring.pc = "destroy"
    /\ xpoll_destroy
    /\ ring' = [ring EXCEPT !.pc = "exit"]

NextRing ==
    \/ RingCreate /\ UNCHANGED mon
    \/ RingAddIn /\ UNCHANGED mon
    \/ RingAddOut /\ UNCHANGED mon
    \/ RingDisable /\ UNCHANGED mon
    \/ RingFirstWrite /\ UNCHANGED mon
    \/ RingAlarm /\ UNCHANGED mon
    \/ RingWaitCall /\ UNCHANGED mon
    \/ RingRevents /\ UNCHANGED mon
    \/ RingRead /\ UNCHANGED mon
    \/ RingEnable /\ UNCHANGED mon
    \/ RingDisableOut /\ UNCHANGED mon
    \/ RingSkipOut /\ UNCHANGED mon
    \/ RingWrite /\ UNCHANGED mon
    \/ RingLeave /\ UNCHANGED mon
    \/ RingDestroy /\ UNCHANGED mon

SpecRing == Init /\ [][NextRing]_vars

----------------------------------------------------------------------------
(* The caller passing xpoll_ctl a data pointer of its choice on every call *)

OtherData == "other"
DataInputs(fd) == {DataOf(fd), OtherData}

CtlData ==
    /\ hist.ctls < MaxCtl
    /\ hist.waits = 0
    /\ \E op \in Ops, events \in EventInputs, data \in DataInputs(0) :
          xpoll_ctl(op, events, 0, data)

NextData ==
    \/ xpoll_create(1, "none") /\ UNCHANGED <<mon, ring>>
    \/ CtlData /\ UNCHANGED <<mon, ring>>
    \/ Wait(Timeouts) /\ UNCHANGED <<mon, ring>>
    \/ Drain /\ UNCHANGED <<mon, ring>>

SpecData == Init /\ [][NextData]_vars

----------------------------------------------------------------------------
(* Properties *)

\* the xpoll_revents calls of the cycle that returned an event, and those that did not
Yielded(i) == hist.rets[i].flags # {}
Calls == 1 .. Len(hist.rets)

\* C1: once xpoll_wait has returned n > 0, the first n calls of xpoll_revents
\* return an event and every later call returns 0, on every backend and for
\* every set of ready descriptors.
C1_ExactlyNEvents ==
    (phase = "live" /\ hist.waits > 0 /\ hist.waitRet > 0)
        => \A i \in Calls : Yielded(i) <=> i <= hist.waitRet

\* C2: every event xpoll_revents returns carries the flags of one ready
\* descriptor and the data recorded for that same descriptor, and no descriptor
\* is returned twice in one wait cycle.
C2_FlagsWithOwnData ==
    (phase = "live" /\ hist.waits > 0)
        => /\ \A i \in Calls :
                Yielded(i) => /\ hist.rets[i].src = hist.rets[i].didx
                              /\ hist.rets[i].data = DataOf(hist.rets[i].src)
           /\ \A i, j \in Calls :
                (i < j /\ Yielded(i) /\ Yielded(j)) => hist.rets[i].src # hist.rets[j].src

\* the interest the kernel holds for the knotes of descriptor fd once the
\* pending changes are in (kqueue)
KqPendingKern == KqChanges(kern, xpoll.changev, NChange, <<>>)
KqOn(k, fd, flt) == k[<<fd, flt>>].reg /\ k[<<fd, flt>>].enabled
KqInterest(k, fd) ==
    (IF KqOn(k, fd, "READ") THEN {POLLIN} ELSE {})
        \cup (IF KqOn(k, fd, "WRITE") THEN {POLLOUT} ELSE {})

\* whether descriptor fd is in the state a single ADD(events, data) on a new
\* handle of the same capacity puts it in
AsFreshAdd(fd, events, data) ==
    LET fresh == CreateXpoll(backend, hist.create[1], "none")
        fds == CtlFds(fresh, XPOLL_ADD, events, fd)
    IN  CASE backend = "poll" ->
                /\ xpoll.fds[fd] = fds[fd]
                /\ xpoll.datav[fd] = data
          [] backend = "epoll" ->
                /\ xpoll.fds[fd] = fds[fd]
                /\ kern[fd] = EpollCtl(FreshKern(backend), NativeOp(XPOLL_ADD), fd,
                                       [events |-> fds[fd].events, data |-> data]).kern[fd]
          [] backend = "kqueue" ->
                LET now == KqPendingKern.kern
                    new == KqChanges(FreshKern(backend),
                                     CtlChanges(XPOLL_ADD, events, fd, data),
                                     NChange, <<>>).kern
                IN  \A flt \in Filters : now[<<fd, flt>>] = new[<<fd, flt>>]

\* C3: ADD, DELETE, ADD on a descriptor leaves it as a single ADD with the last
\* call's flags and data on a new handle would: no interest from before the
\* DELETE is left.
C3_AddDeleteAdd ==
    (phase = "live" /\ hist.waits = 0 /\ mon.pat.stage = 3)
        => AsFreshAdd(mon.pat.fd, mon.pat.events, mon.pat.data)

C5_CreateDestroyReleasesAll ==
    (phase = "destroyed" /\ hist.ctls = 0)
        => (heap = {} /\ openfds = UserFds)

\* C6: when an allocation or the creation of the native descriptor fails,
\* xpoll_create returns NULL with the error in errno, and everything allocated
\* until then has been released.
C6_FailedCreateReleasesAll ==
    (phase = "failed" /\ hist.create[2] # "none")
        => (ret = 0 /\ errno \in {"ENOMEM", "EMFILE"} /\ heap = {})

\* C7: xpoll_create with capacity < 1 fails with EINVAL, returns NULL, and has
\* allocated nothing and created no descriptor.
C7_BadCapacityRejected ==
    (phase # "none" /\ hist.create[1] < 1)
        => /\ phase = "failed"
           /\ ret = 0
           /\ errno = "EINVAL"
           /\ heap = {}
           /\ openfds = UserFds
           /\ closed = <<>>
           /\ xpoll = ZeroXpoll

\* C7: xpoll_create(0) has been called
C7_ZeroCapacityTried == phase = "failed" /\ hist.create[1] = 0

\* the flags the backend watches descriptor fd for
Interest(fd) ==
    CASE backend = "poll" ->
            IF xpoll.fds[fd].fd >= 0 /\ fd < xpoll.nfds THEN xpoll.fds[fd].events ELSE {}
      [] backend = "epoll" -> IF kern[fd].reg THEN kern[fd].events ELSE {}
      [] backend = "kqueue" -> KqInterest(IF hist.waits = 0 THEN KqPendingKern.kern ELSE kern, fd)

\* C8: ENABLE(F) followed by DISABLE(F) on a registered descriptor leaves no
\* flag of F in its interest, and the wait cycle that follows returns no event
\* with a flag of F for it, ready or not.
C8_EnableDisable ==
    (phase = "live" /\ mon.ed.stage = 2)
        => /\ Interest(mon.ed.fd) \cap mon.ed.events = {}
           /\ \A i \in Calls :
                hist.rets[i].data = DataOf(mon.ed.fd)
                    => hist.rets[i].flags \cap mon.ed.events = {}

\* C9: the bound xpoll_wait hands to the kernel is its timeout in
\* milliseconds: none when timeout < 0, and on kqueue a timespec of
\* timeout div 1000 seconds and (timeout mod 1000) * 1000000 nanoseconds.
C9_TimeoutInMilliseconds ==
    hist.last.op = "wait"
        => LET kind == hist.last.native[1]
               timeout == hist.last.native[2]
           IN  /\ timeout < 0 => (kind = "null" \/ kind = "ms")
               /\ kind = "ts" => /\ hist.last.native[3] = timeout \div 1000
                                 /\ hist.last.native[4] = (timeout % 1000) * 1000000

\* what descriptor fd was ready for among the flags watched for it
ReadyIn(fd) == hist.ready[fd] \cap Interest(fd)
ReadyFds == {f \in UserFds : ReadyIn(f) # {}}

\* kqueue: the wait returned changes the kernel refused instead of readiness
KqRefused == \E i \in 1 .. Len(xpoll.ev) : "EV_ERROR" \in xpoll.ev[i].flags

\* wait returned 1, the first event is that of descriptor f, the second call returns 0
OneEvent(f) ==
    /\ hist.waitRet = 1
    /\ Len(hist.rets) >= 1 => /\ hist.rets[1].flags = ReadyIn(f)
                              /\ hist.rets[1].data = DataOf(f)
    /\ Len(hist.rets) >= 2 => hist.rets[2] = None

C11_WaitStartsCycle ==
    (phase = "live" /\ hist.waits > 0)
        => /\ hist.last.op = "wait"
                => (xpoll.n = 0 /\ xpoll.nrdy = hist.waitRet /\ ret = hist.waitRet)
           /\ Cardinality({i \in Calls : Yielded(i)})
                <= (IF hist.waitRet > 0 THEN hist.waitRet ELSE 0)
           /\ hist.waitRet < 1 => \A i \in Calls : hist.rets[i] = None

\* C11: a wait called with events undrained has returned 0, and xpoll_revents
\* has been called since
C11_UndrainedThenNothing ==
    /\ hist.waits = 2
    /\ hist.left > 0
    /\ hist.waitRet = 0
    /\ Len(hist.rets) >= 1

\* C12: on the kqueue build changev never holds NChange entries when xpoll_ctl
\* returns, no xpoll_ctl writes an entry past changev[NChange - 1], and a
\* xpoll_ctl that leaves NChange - 1 entries or more hands them all to kevent
\* and returns with changec 0.
C12_BatchBelowCapacity ==
    (backend = "kqueue" /\ phase = "live")
        => /\ xpoll.changec = Len(xpoll.changev)
           /\ xpoll.changec < NChange
           /\ hist.last.op = "ctl"
                => /\ hist.last.top <= NChange
                   /\ hist.last.top >= NChange - 1
                        => /\ xpoll.changec = 0
                           /\ Len(hist.last.sub) = hist.last.top

\* C12: a xpoll_ctl has written the last slot of changev and has flushed
C12_LastSlotWrittenFlushed ==
    /\ backend = "kqueue"
    /\ hist.last.op = "ctl"
    /\ hist.last.top = NChange
    /\ xpoll.changec = 0

\* C13: on the kqueue build the entries a xpoll_ctl appends go, behind those
\* already pending, either to kevent in that call or into changev, in the order
\* they were made; xpoll_wait hands kevent exactly the pending entries and
\* leaves changev empty.  Call after call, every entry reaches kevent once, in
\* the order of the calls.
C13_SubmittedOnceInOrder ==
    [][(backend = "kqueue" /\ phase = "live" /\ phase' = "live")
          => /\ \A op \in BatchOps, events \in BatchEvents :
                    xpoll_ctl(op, events, 0, DataOf(0))
                        => /\ xpoll.changev \o CtlChanges(op, events, 0, DataOf(0))
                                = hist'.last.sub \o xpoll'.changev
                           /\ hist'.last.sub # <<>> => xpoll'.changev = <<>>
             /\ hist'.waits = hist.waits + 1
                    => /\ hist'.last.sub = xpoll.changev
                       /\ xpoll'.changev = <<>>
                       /\ xpoll'.changec = 0]_vars

\* C13: a second xpoll_wait has handed kevent the entries made since the first
C13_SecondWaitSubmits ==
    /\ backend = "kqueue"
    /\ hist.waits = 2
    /\ hist.last.op = "wait"
    /\ Len(hist.last.sub) >= 2
    /\ xpoll.changev = <<>>

\* C14: a descriptor becomes registered only by XPOLL_ADD and stops being
\* registered only by XPOLL_DELETE (XPOLL_ENABLE and XPOLL_DISABLE of a
\* descriptor that is not registered leave it so), and xpoll_revents returns
\* no event of a descriptor that is not registered.
C14_RegisteredOnlyByAdd ==
    /\ [][\A op \in Ops, events \in EventInputs, fd \in SeqFds :
            (phase = "live" /\ xpoll_ctl(op, events, fd, DataOf(fd)) /\ phase' = "live")
                => /\ (~Registered(backend, xpoll, kern, fd)
                            /\ Registered(backend, xpoll', kern', fd))
                        => op = XPOLL_ADD
                   /\ (Registered(backend, xpoll, kern, fd)
                            /\ ~Registered(backend, xpoll', kern', fd))
                        => op = XPOLL_DELETE]_vars
    /\ []((phase = "live" /\ hist.waits > 0)
            => \A i \in Calls :
                    Yielded(i) => Registered(backend, xpoll, kern, hist.rets[i].src))

\* what is recorded for descriptor fd: whether it is registered, its interest
\* and its data
Recorded(fd) ==
    [reg |-> Registered(backend, xpoll, kern, fd),
     interest |-> Interest(fd),
     data |-> CASE backend = "poll" -> <<xpoll.datav[fd]>>
                [] backend = "epoll" -> <<kern[fd].data>>
                [] backend = "kqueue" ->
                      LET k == IF hist.waits = 0 THEN KqPendingKern.kern ELSE kern
                      IN  <<k[<<fd, "READ">>].data, k[<<fd, "WRITE">>].data>>]

\* C15: XPOLL_ENABLE and XPOLL_DISABLE with flags F on a descriptor leave every
\* flag of its interest outside F as it was, leave what is recorded for every
\* other descriptor as it was, and no interest ever holds a flag other than
\* POLLIN and POLLOUT.
C15_OnlyTheFlagsNamed ==
    [][\A op \in {XPOLL_ENABLE, XPOLL_DISABLE}, events \in EventInputs, fd \in SeqFds :
            (phase = "live" /\ xpoll_ctl(op, events, fd, DataOf(fd)) /\ phase' = "live")
                => /\ Interest(fd)' \ events = Interest(fd) \ events
                   /\ \A other \in SeqFds \ {fd} : Recorded(other)' = Recorded(other)
                   /\ \A f \in SeqFds : Interest(f)' \subseteq {POLLIN, POLLOUT}]_vars

\* C16: every event xpoll_revents returns has flags among POLLIN, POLLOUT,
\* POLLERR and POLLHUP and at least one of them, and has POLLHUP when the
\* descriptor it is for has hung up.
C16_CommonFlagsOnly ==
    (phase = "live" /\ hist.waits > 0)
        => /\ backend # "poll" => \A i \in Calls : i <= hist.waitRet => Yielded(i)
           /\ \A i \in Calls :
                Yielded(i)
                    => /\ hist.rets[i].flags \subseteq Flags
                       /\ POLLHUP \in hist.ready[hist.rets[i].src]
                            => POLLHUP \in hist.rets[i].flags

\* the interest the next xpoll_wait works with
RingInterest(fd) ==
    CASE backend = "poll" ->
            IF xpoll.fds[fd].fd >= 0 /\ fd < xpoll.nfds THEN xpoll.fds[fd].events ELSE {}
      [] backend = "epoll" -> IF kern[fd].reg THEN kern[fd].events ELSE {}
      [] backend = "kqueue" -> KqInterest(KqPendingKern.kern, fd)

\* the pipes whose write end has POLLOUT enabled
RingEnabled == {i \in Pipes : POLLOUT \in RingInterest(WrEnd(i))}

\* the pipes the token is at: unread data, or POLLOUT enabled
RingToken == Cardinality(ring.data) + Cardinality(RingEnabled)

\* C17 as stated: in every state of the loop of main(), between one xpoll_wait
\* and the next, the pipes with unread data and the write ends with POLLOUT
\* enabled are one in all.
C17_OneTokenInEveryState ==
    (phase = "live" /\ ring.pc \in LoopPcs) => RingToken = 1

\* C17: whenever main() is about to call xpoll_wait, the pipes with unread data
\* and the write ends with POLLOUT enabled are one in all, at pipe
\* rd_total mod connc; every xpoll_wait returns 1 and its cycle yields one
\* event, which main() handles without reaching errout.
C17_OneTokenAtEveryWait ==
    /\ (phase = "live" /\ ring.pc = "loop")
            => /\ RingToken = 1
               /\ ring.data \cup RingEnabled = {ring.rd_total % Connc}
               /\ hist.last.op = "revents"
                    => (Len(hist.rets) = 2 /\ Yielded(1) /\ ~Yielded(2))
    /\ hist.last.op = "wait" => (ret = 1 /\ ring.pc = "revents")
    /\ ring.pc \notin {"crash", "blocked"}
    /\ ring.pc = "destroy" => ring.sigalrm

\* C17: the token has gone round the ring and is back at the pipe after pipe 0
C17_TokenWentRound ==
    /\ ring.pc = "loop"
    /\ phase = "live"
    /\ ring.rd_total = Connc + 1
    /\ RingEnabled = {1 % Connc}

\* C18: xpoll_destroy, and the xpoll_destroy that xpoll_create runs at errout,
\* hand close(2) nothing but the descriptor epoll_create1 or kqueue returned to
\* this handle, and every descriptor of the caller stays open.
C18_ClosesOnlyItsOwn ==
    /\ \A i \in 1 .. Len(closed) :
            /\ closed[i] = NativeFd
            /\ backend \in {"epoll", "kqueue"}
            /\ hist.create[2] = "none"
    /\ UserFds \subseteq openfds

\* C19: XPOLL_ENABLE and XPOLL_DISABLE of a registered descriptor leave the
\* data recorded for it, which is what its events are returned with, as the
\* last XPOLL_ADD set it, whatever data they are called with.
C19_DataOfLastAdd ==
    [][\A op \in {XPOLL_ENABLE, XPOLL_DISABLE}, events \in EventInputs,
          data \in DataInputs(0) :
            (/\ phase = "live"
             /\ Registered(backend, xpoll, kern, 0)
             /\ xpoll_ctl(op, events, 0, data))
                => Recorded(0)'.data = Recorded(0).data]_vars

\* C20: a xpoll_ctl that returns nonzero leaves every slot of the fds table
\* (fd, events) and the data recorded for every descriptor as they were.
C20_FailedCtlChangesNothing ==
    [][(phase = "live" /\ hist'.ctls = hist.ctls + 1 /\ phase' = "live" /\ ret' # 0)
          => /\ xpoll'.fds = xpoll.fds
             /\ xpoll'.datav = xpoll.datav
             /\ \A fd \in UserFds : Recorded(fd)'.data = Recorded(fd).data]_vars

\* xpoll_revents has just returned: what it returned
LastRet == hist'.rets[Len(hist'.rets)]
ReventsStep == /\ hist'.last.op = "revents"
               /\ Len(hist'.rets) = Len(hist.rets) + 1

\* the poll build: nfds is 0 after xpoll_create, a xpoll_ctl that returns 0
\* raises it to fd + 1 when that is more, nothing else changes it (so it is
\* 1 + the largest fd of a successful xpoll_ctl), it never exceeds fdmax, the
\* cursor stays within 0 .. nfds, and xpoll_revents returns the revents and the
\* data of slots below nfds.
C21_ScanWithinNfds ==
    /\ [](phase = "live" /\ backend = "poll"
            => /\ 0 <= xpoll.n /\ xpoll.n <= xpoll.nfds
               /\ xpoll.nfds <= xpoll.fdmax
               /\ hist.ctls = 0 => xpoll.nfds = 0)
    /\ [][(phase = "live" /\ phase' = "live" /\ backend = "poll")
            => /\ \A op \in Ops, events \in EventInputs, fd \in TwoFds :
                    xpoll_ctl(op, events, fd, DataOf(fd))
                        => xpoll'.nfds = (IF ret' = 0 /\ fd + 1 > xpoll.nfds
                                          THEN fd + 1 ELSE xpoll.nfds)
               /\ hist'.ctls = hist.ctls => xpoll'.nfds = xpoll.nfds
               /\ (ReventsStep /\ LastRet.flags # {})
                    => (LastRet.src < xpoll.nfds /\ LastRet.didx < xpoll.nfds)]_vars

\* the epoll and kqueue builds, in a cycle whose xpoll_wait returned more than
\* 0: cursor + pending is that result, which is at most the EventBuf entries of
\* eventv, and xpoll_revents reads eventv below it.  After a xpoll_wait that
\* returned 0 or less the cursor is 0, pending is that result and
\* xpoll_revents reads nothing.
C21_CursorWithinResult ==
    /\ [](phase = "live" /\ backend # "poll" /\ hist.waits > 0
            => IF hist.waitRet > 0
               THEN /\ xpoll.n + xpoll.nrdy = hist.waitRet
                    /\ 0 <= xpoll.n /\ xpoll.n <= hist.waitRet
                    /\ hist.waitRet <= EventBuf
                    /\ hist.waitRet <= Len(xpoll.ev)
               ELSE /\ xpoll.n = 0
                    /\ xpoll.nrdy = hist.waitRet)
    /\ [][(phase = "live" /\ backend # "poll" /\ ReventsStep)
            => IF xpoll.nrdy >= 1
               THEN /\ xpoll.n < hist.waitRet
                    /\ xpoll'.n = xpoll.n + 1
               ELSE /\ xpoll' = xpoll
                    /\ LastRet = None]_vars

\* C21 as stated: on epoll and kqueue, cursor + pending is the last result
\* of xpoll_wait that was above 0, in every state after such a result; on poll
\* the scan stays below nfds.
C21_CursorPlusPendingIsLastPositive ==
    /\ [](phase = "live" /\ backend # "poll" /\ hist.pos > 0
            => xpoll.n + xpoll.nrdy = hist.pos)
    /\ C21_ScanWithinNfds

\* C21: the cursor and the scan length stay where xpoll_wait and xpoll_ctl put
\* them: C21_ScanWithinNfds on poll, C21_CursorWithinResult on epoll and kqueue.
C21_CursorInsidePopulated == C21_ScanWithinNfds /\ C21_CursorWithinResult

\* C21: a cycle of two events has been drained to its end on epoll or kqueue
C21_TwoEventsDrained ==
    /\ backend # "poll"
    /\ hist.waitRet = 2
    /\ xpoll.n = 2
    /\ xpoll.nrdy = 0
    /\ Len(hist.rets) >= 3

====
